---- MODULE Spec2Model ----
(***************************************************************************)
(* The user-account service of src/src: the User table (models/user.py),   *)
(* the store operations (db.py) and the request handlers (api.py).         *)
(*                                                                         *)
(* Text values are TLA+ strings.  A bcrypt hash is the text                *)
(* salt \o "$" \o digest, where the salt has a fixed length and starts     *)
(* with "$2b$"; the digest of a password under a salt is a symbolic term   *)
(* that is injective in the password (collision freedom of bcrypt is       *)
(* assumed, and its handling of passwords longer than 72 bytes is left     *)
(* out).  Time is a coarse integer clock.                                  *)
(***************************************************************************)
EXTENDS Integers, Sequences, FiniteSets, TLC

VARIABLES
    users,  \* the rows of the User table
    now,    \* the wall clock, datetime.now(timezone.utc)
    req,    \* the request handled last: what the client sent
    resp,   \* the response to it
    inflight \* the PUT /me requests that run side by side: where each one is

vars == <<users, now, req, resp, inflight>>

(***************************************************************************)
(* Bounds and input domains                                                *)
(***************************************************************************)
MaxTime == 1

Emails == {"a@x.com", "b@x.com"}
Passwords == {"longenough1", "longenough2"}
FirstNames == {"Ann", "Bob"}
LastNames == {"Kim", "Lee"}

\* Python's None for a text value, and for a field the JSON body leaves out.
NoValue == "<None>"
\* A timestamp the JSON body leaves out.
Unset == -1

(***************************************************************************)
(* models/user.py                                                          *)
(***************************************************************************)
\* datetime.now(timezone.utc) in the Field defaults is evaluated once, when
\* the class body runs at import.
ImportTime == 0

Times == ImportTime..MaxTime

\* User(**body): the model instance of a request body; a field the body
\* leaves out takes the Field default.
User(body) ==
    [id              |-> 0,
     email           |-> body.email,
     password        |-> body.password,
     first_name      |-> body.first_name,
     last_name       |-> body.last_name,
     account_created |-> IF body.account_created = Unset
                         THEN ImportTime ELSE body.account_created,
     account_updated |-> IF body.account_updated = Unset
                         THEN ImportTime ELSE body.account_updated]

isoformat(t) == "T" \o ToString(t)

\* Faulty variant of safe_dict: the whole row, as model_dump() gives it.
safe_dict_with_password(self) ==
    [id              |-> self.id,
     email           |-> self.email,
     password        |-> self.password,
     first_name      |-> self.first_name,
     last_name       |-> self.last_name,
     account_created |-> isoformat(self.account_created),
     account_updated |-> isoformat(self.account_updated)]

safe_dict(self) ==
    [id              |-> self.id,
     email           |-> self.email,
     first_name      |-> self.first_name,
     last_name       |-> self.last_name,
     account_created |-> isoformat(self.account_created),
     account_updated |-> isoformat(self.account_updated)]

(***************************************************************************)
(* bcrypt, as the handlers call it                                         *)
(***************************************************************************)
\* bcrypt.gensalt(): a fresh random salt.
Salts == {"$2b$s1", "$2b$s2"}

digest(password, salt) == "H(" \o password \o ")"

\* bcrypt.hashpw(password.encode(), salt).decode()
hashpw(password, salt) == salt \o "$" \o digest(password, salt)

\* The salt bcrypt reads back from the head of a stored hash.
salt_of(hashed) == SubSeq(hashed, 1, 6)

\* bcrypt raises ValueError("Invalid salt") on a text that does not start
\* with a well-formed salt.
invalid_salt(hashed) == Len(hashed) < 6 \/ salt_of(hashed) \notin Salts

\* Faulty variant of checkpw: only the salt is compared.
checkpw_salt_only(password, hashed) ==
    salt_of(hashpw(password, salt_of(hashed))) = salt_of(hashed)

\* bcrypt.checkpw(password, hashed) where hashed is well formed: hash the
\* password under the stored salt and compare.
checkpw(password, hashed) == hashpw(password, salt_of(hashed)) = hashed

(***************************************************************************)
(* db.py: each operation returns its result and the table it leaves        *)
(***************************************************************************)
NoUser == [id |-> 0]

RowIds(table) == {u.id : u \in table}

\* The id the store generates for an inserted row.
NextId(table) ==
    IF table = {} THEN 1
    ELSE (CHOOSE i \in RowIds(table) : \A j \in RowIds(table) : j <= i) + 1

\* Faulty variant of UniqueViolation: the column has no unique constraint.
UniqueViolation_none(table, row) == FALSE

\* The unique constraint on User.email.
UniqueViolation(table, row) == \E u \in table : u.email = row.email

\* session.add(new_user); session.commit().  up: the store is reachable and
\* the commit goes through.
create_user(table, new_user, up) ==
    IF up /\ ~UniqueViolation(table, new_user)
    THEN [res |-> TRUE,
          table |-> table \cup {[new_user EXCEPT !.id = NextId(table)]}]
    ELSE [res |-> FALSE, table |-> table]

get_user_from_email(table, email, up) ==
    IF up /\ (\E u \in table : u.email = email)
    THEN CHOOSE u \in table : u.email = email
    ELSE NoUser

\* Faulty variant of update_user_with_id: the row is not selected by id.
update_user_with_id_every_row(table, user_id, user, t, up) ==
    IF up /\ (\E u \in table : u.id = user_id)
    THEN LET existing_user == CHOOSE u \in table : u.id = user_id
             updated(u) == [u EXCEPT
                               !.first_name = user.first_name,
                               !.last_name = user.last_name,
                               !.password = user.password,
                               !.account_updated = t]
         IN  [res |-> updated(existing_user),
              table |-> {updated(u) : u \in table}]
    ELSE [res |-> NoUser, table |-> table]

\* session.get(User, user_id), the three setattr, the account_updated stamp,
\* session.commit().
update_user_with_id(table, user_id, user, t, up) ==
    IF up /\ (\E u \in table : u.id = user_id)
    THEN LET existing_user == CHOOSE u \in table : u.id = user_id
             updated == [existing_user EXCEPT
                            !.first_name = user.first_name,
                            !.last_name = user.last_name,
                            !.password = user.password,
                            !.account_updated = t]
         IN  [res |-> updated,
              table |-> (table \ {existing_user}) \cup {updated}]
    ELSE [res |-> NoUser, table |-> table]

(***************************************************************************)
(* api.py                                                                  *)
(***************************************************************************)
NoContent == [k \in {} |-> ""]

Response(status_code, headers, content) ==
    [status_code |-> status_code, headers |-> headers, content |-> content]

Challenge == {<<"WWW-Authenticate", "Basic">>}

Unauthorized == Response(401, Challenge, NoContent)

\* An exception that leaves the handler.
ServerError == Response(500, {}, NoContent)

\* security = HTTPBasic(): a request without credentials never reaches the
\* handler.
NoCredentials == [username |-> NoValue, password |-> NoValue]

Credentials == [username : Emails, password : Passwords]

\* The UpdateRequest bodies: each field is None or a value.
UpdateRequest ==
    [password   : Passwords \cup {NoValue},
     last_name  : LastNames \cup {NoValue},
     first_name : FirstNames \cup {NoValue}]

\* The fields of an UpdateRequest that are not None.
Supplied(new_user) ==
    {k \in {"first_name", "last_name", "password"} : new_user[k] /= NoValue}

\* What is recorded of a request: the route, the body fields the handler
\* read, and whether a store operation of the handler failed.
Request(op, fields, store) == [op |-> op, fields |-> fields, store |-> store]

\* How a read of the store went.
ReadOutcome(up) == IF up THEN "ok" ELSE "read failed"

\* Faulty variant of signup_result: the password is stored as submitted.
signup_result_plaintext(table, body, salt, up) ==
    LET r == create_user(table, User(body), up)
    IN  [resp  |-> IF r.res THEN Response(201, {}, NoContent)
                            ELSE Response(503, {}, NoContent),
         table |-> r.table]

\* signup on a table: the response and the table it leaves.
signup_result(table, body, salt, up) ==
    LET new_user == [User(body) EXCEPT !.password = hashpw(body.password, salt)]
        r == create_user(table, new_user, up)
    IN  [resp  |-> IF r.res THEN Response(201, {}, NoContent)
                            ELSE Response(503, {}, NoContent),
         table |-> r.table]

signup(body, salt, up) ==
    LET r == signup_result(users, body, salt, up)
    IN  /\ users' = r.table
        /\ resp' = r.resp
        /\ req' = Request("signup", {}, IF up THEN "ok" ELSE "write failed")
        /\ UNCHANGED <<now, inflight>>

login_response(table, credentials, up) ==
    IF credentials = NoCredentials THEN Unauthorized
    ELSE LET user == get_user_from_email(table, credentials.username, up)
         IN  IF user /= NoUser
             THEN IF invalid_salt(user.password) THEN ServerError
                  ELSE IF checkpw(credentials.password, user.password)
                       THEN Response(200, {}, NoContent)
                       ELSE Unauthorized
             ELSE Unauthorized

login(credentials, up) ==
    /\ resp' = login_response(users, credentials, up)
    /\ req' = Request("login", {}, ReadOutcome(up))
    /\ UNCHANGED <<users, now, inflight>>

get_current_user_response(table, credentials, up) ==
    IF credentials = NoCredentials THEN Unauthorized
    ELSE LET user == get_user_from_email(table, credentials.username, up)
         IN  IF user /= NoUser
             THEN IF invalid_salt(user.password) THEN ServerError
                  ELSE IF checkpw(credentials.password, user.password)
                       THEN Response(200, {}, safe_dict(user))
                       ELSE Unauthorized
             ELSE Unauthorized

get_current_user(credentials, up) ==
    /\ resp' = get_current_user_response(users, credentials, up)
    /\ req' = Request("me", {}, ReadOutcome(up))
    /\ UNCHANGED <<users, now, inflight>>

\* Faulty variant of Patch: the fields of the request as they are, None
\* included.
Patch_from_request(user_from_db, new_user, salt) ==
    [first_name |-> new_user.first_name,
     last_name  |-> new_user.last_name,
     password   |-> IF new_user.password /= NoValue
                    THEN hashpw(new_user.password, salt)
                    ELSE user_from_db.password]

\* Faulty variant of Patch: the stored hash is always carried forward.
Patch_keeps_hash(user_from_db, new_user, salt) ==
    [first_name |-> IF new_user.first_name /= NoValue
                    THEN new_user.first_name ELSE user_from_db.first_name,
     last_name  |-> IF new_user.last_name /= NoValue
                    THEN new_user.last_name ELSE user_from_db.last_name,
     password   |-> user_from_db.password]

\* The User(...) that update_user hands to update_user_with_id.
Patch(user_from_db, new_user, salt) ==
    [first_name |-> IF new_user.first_name /= NoValue
                    THEN new_user.first_name ELSE user_from_db.first_name,
     last_name  |-> IF new_user.last_name /= NoValue
                    THEN new_user.last_name ELSE user_from_db.last_name,
     password   |-> IF new_user.password /= NoValue
                    THEN hashpw(new_user.password, salt)
                    ELSE user_from_db.password]

\* update_user on a table at time t: the response, the table it leaves,
\* the body fields it read (none unless the credentials were accepted) and
\* how its store operations went.
update_user_result(table, credentials, new_user, salt, t, readUp, writeUp) ==
    LET rejected(r, store) ==
            [resp |-> r, table |-> table, fields |-> {}, store |-> store]
    IN
    IF credentials = NoCredentials THEN rejected(Unauthorized, "ok")
    ELSE LET user_from_db == get_user_from_email(table, credentials.username, readUp)
         IN  IF user_from_db = NoUser
             THEN rejected(Unauthorized, ReadOutcome(readUp))
             ELSE IF invalid_salt(user_from_db.password)
             THEN rejected(ServerError, "ok")
             ELSE IF checkpw(credentials.password, user_from_db.password)
             THEN LET r == update_user_with_id(table, user_from_db.id,
                               Patch(user_from_db, new_user, salt), t, writeUp)
                  IN  [resp   |-> IF r.res /= NoUser
                                  THEN Response(200, {}, NoContent)
                                  ELSE Unauthorized,
                       table  |-> r.table,
                       fields |-> Supplied(new_user),
                       store  |-> IF writeUp THEN "ok" ELSE "write failed"]
             ELSE rejected(Unauthorized, "ok")

update_user(credentials, new_user, salt, readUp, writeUp) ==
    LET r == update_user_result(users, credentials, new_user, salt, now,
                                readUp, writeUp)
    IN  /\ users' = r.table
        /\ resp' = r.resp
        /\ req' = Request("put", r.fields, r.store)
        /\ UNCHANGED <<now, inflight>>

\* A row put into the table by the store operation itself, as the fixtures
\* of test_db.py do: the password text is stored as given.
RawPasswords == {"hashedsupersecretpassword"}

seed_user(body, up) ==
    LET r == create_user(users, User(body), up)
    IN  /\ users' = r.table
        /\ req' = Request("seed", {}, IF up THEN "ok" ELSE "write failed")
        /\ resp' = Response(0, {}, NoContent)
        /\ UNCHANGED <<now, inflight>>

\* The PUT /me requests that are handled side by side, one task each with
\* its own session.
Tasks == {"t1", "t2"}

\* A task that has not received its request yet.
Idle == [pc |-> "idle"]

\* A task whose request was answered with status_code; user_id and new_user
\* are what it wrote with, when it got that far.
Done(status_code, user_id, new_user) ==
    [pc |-> "done", status_code |-> status_code,
     user_id |-> user_id, new_user |-> new_user]

\* The first store call of update_user and what follows it up to the second
\* one: get_user_from_email, checkpw, and the User(...) built from the row
\* that was read.  Rejected credentials are answered here.
update_user_read(t, credentials, new_user, salt) ==
    /\ inflight[t] = Idle
    /\ LET user_from_db == IF credentials = NoCredentials THEN NoUser
                            ELSE get_user_from_email(users, credentials.username, TRUE)
           answer(r) ==
               /\ resp' = r
               /\ req' = Request("put", {}, "ok")
               /\ inflight' = [inflight EXCEPT ![t] = Done(r.status_code, 0, new_user)]
       IN  IF user_from_db = NoUser THEN answer(Unauthorized)
           ELSE IF invalid_salt(user_from_db.password) THEN answer(ServerError)
           ELSE IF checkpw(credentials.password, user_from_db.password)
           THEN /\ inflight' = [inflight EXCEPT ![t] =
                                   [pc |-> "patched",
                                    user_id |-> user_from_db.id,
                                    user |-> Patch(user_from_db, new_user, salt),
                                    new_user |-> new_user]]
                /\ UNCHANGED <<req, resp>>
           ELSE answer(Unauthorized)
    /\ UNCHANGED <<users, now>>

\* The second store call of update_user, update_user_with_id in a
\* transaction of its own, and the response.
update_user_write(t) ==
    /\ inflight[t].pc = "patched"
    /\ LET r == update_user_with_id(users, inflight[t].user_id, inflight[t].user,
                                    now, TRUE)
           answer == IF r.res /= NoUser THEN Response(200, {}, NoContent)
                                        ELSE Unauthorized
       IN  /\ users' = r.table
           /\ resp' = answer
           /\ req' = Request("put", Supplied(inflight[t].new_user), "ok")
           /\ inflight' = [inflight EXCEPT ![t] =
                              Done(answer.status_code, inflight[t].user_id,
                                   inflight[t].new_user)]
    /\ UNCHANGED now

\* Time passes between requests.
Tick ==
    /\ now < MaxTime
    /\ now' = now + 1
    /\ UNCHANGED <<users, req, resp, inflight>>

(***************************************************************************)
(* Specifications                                                          *)
(***************************************************************************)
Init ==
    /\ users = {}
    /\ now = ImportTime
    /\ req = Request("none", {}, "ok")
    /\ resp = Response(0, {}, NoContent)
    /\ inflight = [t \in Tasks |-> Idle]

AnyCredentials == Credentials \cup {NoCredentials}

\* The signup bodies of the interface: email, password and the two names.
SignupBodies ==
    [email : Emails, password : Passwords,
     first_name : FirstNames, last_name : LastNames,
     account_created : {Unset}, account_updated : {Unset}]

\* Signup bodies that also carry the model's timestamp fields.
StampedBodies ==
    [email : Emails, password : Passwords,
     first_name : {"Ann"}, last_name : {"Kim"},
     account_created : Times \cup {Unset}, account_updated : Times \cup {Unset}]

\* The updates that leave the names alone.
PasswordUpdates == {b \in UpdateRequest : Supplied(b) \subseteq {"password"}}

\* Two accounts: signups that all carry the same names, and updates that
\* may change the password and may set first_name to another name.
AccountBodies ==
    {b \in SignupBodies : b.first_name = "Ann" /\ b.last_name = "Kim"}

AccountUpdates ==
    {b \in UpdateRequest : b.last_name = NoValue /\ b.first_name /= "Ann"}

\* One account: signups with one email and any names.
ProfileBodies == {b \in SignupBodies : b.email = "a@x.com"}

\* The requests of the HTTP interface, with signup bodies from bodies,
\* update bodies from updates, and the store reachable as ups allows.
Requests(bodies, updates, ups) ==
    \/ \E body \in bodies, salt \in Salts, up \in ups : signup(body, salt, up)
    \/ \E c \in AnyCredentials, up \in ups : login(c, up)
    \/ \E c \in AnyCredentials, up \in ups : get_current_user(c, up)
    \/ \E c \in Credentials, b \in updates, salt \in Salts,
          readUp \in ups, writeUp \in ups :
          update_user(c, b, salt, readUp, writeUp)
    \/ \E up \in ups : update_user(NoCredentials, CHOOSE b \in updates : TRUE,
                                    CHOOSE salt \in Salts : TRUE, up, up)

\* The HTTP interface over a store that is reachable, with two accounts.
Next ==
    \/ Tick
    \/ Requests(AccountBodies, AccountUpdates, {TRUE})

Spec == Init /\ [][Next]_vars

\* The same with one account and every update body.
NextProfile ==
    \/ Tick
    \/ Requests(ProfileBodies, UpdateRequest, {TRUE})

SpecProfile == Init /\ [][NextProfile]_vars

\* The same, with clients that send the timestamp fields too.
NextBody ==
    \/ Tick
    \/ Requests(StampedBodies, PasswordUpdates, {TRUE})

SpecBody == Init /\ [][NextBody]_vars

\* The same over a store that may be unreachable or fail a commit, and
\* that may hold rows the handlers did not write.
NextEnv ==
    \/ Tick
    \/ Requests({b \in StampedBodies : b.account_created = Unset
                                       /\ b.account_updated = Unset},
                PasswordUpdates, BOOLEAN)
    \/ \E b \in StampedBodies, raw \in RawPasswords, up \in BOOLEAN :
          /\ b.account_created = Unset /\ b.account_updated = Unset
          /\ seed_user([b EXCEPT !.password = raw], up)

SpecEnv == Init /\ [][NextEnv]_vars

\* PUT /me requests handled side by side, for one account: each task reads,
\* builds its User(...), and writes, and the steps of the tasks interleave.
NextConcurrent ==
    \/ Tick
    \/ \E body \in ProfileBodies \cap AccountBodies, salt \in Salts :
          signup(body, salt, TRUE)
    \/ \E t \in Tasks, c \in AnyCredentials, b \in AccountUpdates, salt \in Salts :
          update_user_read(t, c, b, salt)
    \/ \E t \in Tasks : update_user_write(t)

SpecConcurrent == Init /\ [][NextConcurrent]_vars

(***************************************************************************)
(* Properties                                                              *)
(***************************************************************************)
Creds(email, password) == [username |-> email, password |-> password]

\* hashed is an output of the hasher for password, under some salt.
IsHashOf(hashed, password) == \E salt \in Salts : hashed = hashpw(password, salt)

\* A stored user has exactly this email and the password verifies against
\* that user's stored hash.
Matches(table, c) ==
    \E u \in table : u.email = c.username /\ IsHashOf(u.password, c.password)

\* What login and GET /me answer to credentials c on the current table.
AuthResponses(c) ==
    {login_response(users, c, TRUE), get_current_user_response(users, c, TRUE)}

\* C1: in every state reached by signups and profile updates, login and
\* GET /me answer 200 exactly to the credentials that name a stored user's
\* email with a password that verifies against that user's stored hash, and
\* answer every other request (unknown email, wrong password, no
\* credentials) with 401 and the header WWW-Authenticate: Basic.
C1_AuthIffStoredHashVerifies ==
    /\ \A c \in AnyCredentials : \A r \in AuthResponses(c) :
          IF Matches(users, c)
          THEN r.status_code = 200
          ELSE r.status_code = 401 /\ <<"WWW-Authenticate", "Basic">> \in r.headers
    /\ req.op = "login" => \E c \in AnyCredentials : resp = login_response(users, c, TRUE)
    /\ req.op = "me" =>
          \E c \in AnyCredentials : resp = get_current_user_response(users, c, TRUE)

\* GET /me answered 200 for a user whose profile was updated after signup,
\* while other credentials are turned away.
C1_Witness ==
    /\ req.op = "me"
    /\ resp.status_code = 200
    /\ \E u \in users : /\ u.email = resp.content.email
                        /\ u.account_updated > u.account_created
    /\ \E c \in Credentials : login_response(users, c, TRUE).status_code = 401

EmailUnique == \A u, v \in users : u.email = v.email => u = v

\* What a signup with this body gives on the current table: the first signup
\* with an email inserts one row and answers 201; a signup with an email
\* that is taken answers 503 and leaves the table as it was.
SignupOutcome(body, r) ==
    IF \E u \in users : u.email = body.email
    THEN r.resp.status_code = 503 /\ r.table = users
    ELSE /\ r.resp.status_code = 201
         /\ \E v \in r.table \ users :
               /\ v.email = body.email
               /\ r.table = users \cup {v}
               /\ v \notin users

\* C2: no two stored users ever share an email; of the signups carrying one
\* email exactly the first succeeds, and every later one fails without
\* touching the stored rows.  (A signup touches the store in one
\* transaction, so its interleavings are the orders of the signup steps.)
C2_EmailUnique ==
    /\ EmailUnique
    /\ \A body \in SignupBodies, salt \in Salts :
          SignupOutcome(body, signup_result(users, body, salt, TRUE))
    /\ (req.op = "signup" /\ resp.status_code = 201) => users /= {}

\* A signup was refused with 503 while the email it carried is stored.
C2_Witness ==
    /\ req.op = "signup"
    /\ resp.status_code = 503
    /\ users /= {}
    /\ EmailUnique

\* The row v is the row u after an update that supplied the fields of b at
\* time t.
Merged(u, v, b, t) ==
    /\ v.id = u.id /\ v.email = u.email
    /\ v.account_created = u.account_created
    /\ v.first_name = (IF b.first_name = NoValue THEN u.first_name ELSE b.first_name)
    /\ v.last_name = (IF b.last_name = NoValue THEN u.last_name ELSE b.last_name)
    /\ IF b.password = NoValue THEN v.password = u.password
                               ELSE IsHashOf(v.password, b.password)
    /\ v.account_updated = t

\* What PUT /me with credentials c, body b and a fresh salt gives on the
\* current table at the current time.
PutResult(c, b, salt) == update_user_result(users, c, b, salt, now, TRUE, TRUE)

\* C3: a PUT /me that answers 200 overwrites exactly the fields the body
\* supplies, keeps the stored value of every other field (the hash stays
\* identical when no password is supplied), and sets account_updated to the
\* current time, also when the body supplies nothing.
C3_UpdateMerge ==
    /\ \A c \in Credentials, b \in UpdateRequest, salt \in Salts :
          LET r == PutResult(c, b, salt)
          IN  r.resp.status_code = 200
              => \E u \in users :
                    /\ u.email = c.username
                    /\ \E v \in r.table : /\ Merged(u, v, b, now)
                                          /\ r.table = (users \ {u}) \cup {v}
    /\ (req.op = "put" /\ resp.status_code = 200)
          => \E u \in users : u.account_updated <= now /\ ~invalid_salt(u.password)

\* A PUT /me that supplied only first_name answered 200, at a time later
\* than the signup.
C3_Witness ==
    /\ req.op = "put"
    /\ resp.status_code = 200
    /\ req.fields = {"first_name"}
    /\ \E u \in users : u.account_updated = now /\ u.account_updated > u.account_created

\* The body of a response carries neither a password key nor a stored hash.
Safe(r) ==
    /\ "password" \notin DOMAIN r.content
    /\ \A k \in DOMAIN r.content \ {"id"} :
          \A u \in users : r.content[k] /= u.password
    /\ r.status_code = 401 => DOMAIN r.content = {}

\* C4: whatever the stored users and the credentials, the body of a GET /me
\* response has no key named password and no value equal to a stored hash,
\* and a 401 response has an empty body.
C4_SafeProjection ==
    /\ \A c \in AnyCredentials : Safe(get_current_user_response(users, c, TRUE))
    /\ Safe(resp)

\* GET /me answered 200 with the projection of a stored user.
C4_Witness ==
    /\ req.op = "me"
    /\ resp.status_code = 200
    /\ "email" \in DOMAIN resp.content
    /\ \E u \in users : resp.content = safe_dict(u)

\* The statuses login and GET /me give to (email, password) on a table.
AuthStatus(table, email, password) ==
    {login_response(table, Creds(email, password), TRUE).status_code,
     get_current_user_response(table, Creds(email, password), TRUE).status_code}

\* The answers login and GET /me give, on a table, for the emails stored now.
Answers(table) ==
    [e \in {u.email : u \in users}, p \in Passwords |-> AuthStatus(table, e, p)]

\* C5: on the table a PUT /me leaves when it supplied a new password and
\* answered 200, login and GET /me for that email succeed with the new
\* password and answer 401 to every other password (the old one included,
\* when it differs); and the answers for the stored users stay as they are
\* through every request that is not such a PUT /me.
C5_PasswordChangeTakesEffect ==
    LET before == Answers(users)
    IN  /\ \A c \in Credentials, b \in UpdateRequest, salt \in Salts :
              LET r == PutResult(c, b, salt)
              IN  IF r.resp.status_code = 200 /\ b.password /= NoValue
                  THEN \A p \in Passwords :
                          AuthStatus(r.table, c.username, p)
                              = (IF p = b.password THEN {200} ELSE {401})
                  ELSE r.table = users \/ Answers(r.table) = before
        /\ \A body \in SignupBodies, salt \in Salts :
              LET r == signup_result(users, body, salt, TRUE)
              IN  r.table = users \/ Answers(r.table) = before

\* A PUT /me that supplied a password answered 200, and the user it updated
\* now logs in with one password and is refused with the other.
C5_Witness ==
    /\ req.op = "put"
    /\ resp.status_code = 200
    /\ "password" \in req.fields
    /\ \E u \in users, p, q \in Passwords :
          /\ u.account_updated = now /\ now > ImportTime
          /\ AuthStatus(users, u.email, p) = {200}
          /\ AuthStatus(users, u.email, q) = {401}

\* C10: in every state reached through POST /signup and PUT /me, the
\* password of every stored user is a well-formed output of the hasher for
\* exactly the password that logs that user in, and is never one of the
\* plaintext passwords clients submit.
C10_OnlyHashesStored ==
    \A u \in users :
        /\ ~invalid_salt(u.password)
        /\ u.password \notin Passwords
        /\ \E p \in Passwords :
              /\ IsHashOf(u.password, p)
              /\ AuthStatus(users, u.email, p) = {200}
              /\ \A q \in Passwords \ {p} : ~IsHashOf(u.password, q)

\* A user signed up and later changed the password with PUT /me.
C10_Witness ==
    /\ req.op = "put"
    /\ resp.status_code = 200
    /\ "password" \in req.fields
    /\ \E u \in users : u.account_updated = now /\ IsHashOf(u.password, "longenough2")

\* C6: a store failure on a write path is answered with 503: a signup
\* answers 201 or 503, and 503 when its insert failed; a PUT /me whose
\* credentials were accepted answers 200 only when the update was
\* persisted, and 503 when the update failed in the store.
C6_StoreFailureIs503 ==
    /\ req.op = "signup" =>
          /\ resp.status_code \in {201, 503}
          /\ req.store = "write failed" => resp.status_code = 503
    /\ req.op = "put" =>
          /\ resp.status_code = 200 => req.store = "ok"
          /\ req.store = "write failed" => resp.status_code = 503

\* C7: when the stored passwords are not well-formed hashes, login, GET /me
\* and PUT /me answer 401 whatever password is presented, and no handler
\* ends in an error.
C7_MalformedHashIs401 ==
    req.op \in {"login", "me", "put"} =>
        /\ resp.status_code /= 500
        /\ (users /= {} /\ \A u \in users : invalid_salt(u.password))
              => resp.status_code = 401

\* C8: every stored user has account_updated >= account_created.
C8_UpdatedNotBeforeCreated ==
    \A u \in users : u.account_updated >= u.account_created

\* C9: the row a signup inserts has an id the store assigned and has
\* account_created and account_updated both equal to the time of the signup
\* request.
C9_SignupStampsNow ==
    [][(req'.op = "signup" /\ resp'.status_code = 201)
       => \A v \in users' \ users :
             /\ v.id \notin RowIds(users) /\ v.id > 0
             /\ v.account_created = now
             /\ v.account_updated = now]_vars

\* The rows of after are the rows of before, except that the row of owner
\* may differ in first_name, last_name, password and account_updated.
OnlyOwnerChanged(before, after, owner) ==
    /\ RowIds(after) = RowIds(before)
    /\ Cardinality(after) = Cardinality(before)
    /\ \A u \in before :
          IF u = owner
          THEN \E v \in after : /\ v.id = u.id
                                /\ v.email = u.email
                                /\ v.account_created = u.account_created
          ELSE u \in after

\* The ids update_user_with_id may be called with.
Ids == 0..(Cardinality(Emails) + 1)

\* C11: a PUT /me changes at most first_name, last_name, password and
\* account_updated of the one row whose email is the presented username and
\* whose hash verifies the presented password; that row keeps its id, email
\* and account_created, every other row stays as it is, and nothing changes
\* when the credentials do not match (the answer is then 401) or when
\* update_user_with_id finds no row for the id.
C11_OwnerOnlyMutation ==
    /\ \A c \in AnyCredentials, b \in UpdateRequest, salt \in Salts :
          LET r == PutResult(c, b, salt)
          IN  IF Matches(users, c)
              THEN \E owner \in users :
                      /\ owner.email = c.username
                      /\ IsHashOf(owner.password, c.password)
                      /\ OnlyOwnerChanged(users, r.table, owner)
              ELSE r.resp.status_code = 401 /\ r.table = users
    /\ \A user_id \in Ids \ RowIds(users), u \in users, b \in UpdateRequest,
          salt \in Salts :
          LET r == update_user_with_id(users, user_id, Patch(u, b, salt), now, TRUE)
          IN  r.res = NoUser /\ r.table = users

\* A PUT /me answered 200 and changed one of two stored users, while the
\* other one is as its signup left it.
C11_Witness ==
    /\ req.op = "put"
    /\ resp.status_code = 200
    /\ req.fields /= {}
    /\ \E u, v \in users :
          /\ u.email /= v.email
          /\ u.account_updated = now /\ now > ImportTime
          /\ u.first_name = "Bob"
          /\ v.account_updated = ImportTime /\ v.first_name = "Ann"

\* The stored row u holds what the body b supplied for the field k.
Holds(u, b, k) ==
    IF k = "password" THEN IsHashOf(u.password, b.password) ELSE u[k] = b[k]

\* C12: when two PUT /me requests for one user have both been answered 200,
\* in whatever order their reads and writes were interleaved, the stored
\* row holds the supplied value of every field that one of them supplied
\* and the other left out; so a password that one of them set is not put
\* back to the earlier hash by the other, which supplied no password.
C12_ConcurrentUpdatesMerge ==
    \A t1, t2 \in Tasks :
        (/\ t1 /= t2
         /\ inflight[t1].pc = "done" /\ inflight[t2].pc = "done"
         /\ inflight[t1].status_code = 200 /\ inflight[t2].status_code = 200
         /\ inflight[t1].user_id = inflight[t2].user_id)
        => \A u \in users :
              u.id = inflight[t1].user_id
              => \A k \in Supplied(inflight[t1].new_user)
                            \ Supplied(inflight[t2].new_user) :
                    Holds(u, inflight[t1].new_user, k)

====
